---- MODULE Spec2Model ----
(***************************************************************************)
(* A model of SearchPDFAttachment (src/base.py): the single-pass pipeline  *)
(* that fetches unread mail over IMAP, extracts PDF attachments, scans     *)
(* their text for a regular expression and, on a match, sends one          *)
(* notification over SMTP.                                                 *)
(*                                                                         *)
(* Strings the code takes apart (file contents, page text, search data,    *)
(* lines, patterns) are sequences of one-character strings; names and      *)
(* statuses are plain strings.                                             *)
(***************************************************************************)
EXTENDS Integers, Sequences, FiniteSets, TLC

VARIABLES
    pc,               \* the statement of __main__ about to run, or "done"
    PATTERN,          \* PYTHON_REGEX_PATTERN as configured
    imapOpen,         \* the IMAP session `connection` holds an open socket
    smtpOpen,         \* the SMTP session `smtp_connection` holds an open socket
    err,              \* the uncaught exception that ended the run, if any
    exitCode,         \* the process's exit status once pc = "done"
    lastCall,         \* the last IMAP command issued and what the server answered
    search_data,      \* connection.search(...)[1][0], decoded
    server_msgs,      \* the messages the search selected, by sequence number
    matching_emails,  \* fetch_emails: the ids still to fetch / fetched
    fetched,          \* fetch_emails: the messages fetched so far
    emails, pdfs, pdf_texts, matches,   \* the locals of __main__
    template,         \* the content of emailText.txt as read by write_email
    email_msg,        \* the EmailMessage write_email built
    sent,             \* the messages handed to send_message, in order
    calls,            \* which of the later components have been invoked
    call, ret         \* a direct call of one function and what it returned

vars == <<pc, PATTERN, imapOpen, smtpOpen, err, exitCode, lastCall,
          search_data, server_msgs, matching_emails, fetched,
          emails, pdfs, pdf_texts, matches, template, email_msg, sent,
          calls, call, ret>>

pipelineVars == <<pc, PATTERN, imapOpen, smtpOpen, err, exitCode, lastCall,
                  search_data, server_msgs, matching_emails, fetched,
                  emails, pdfs, pdf_texts, matches, template, email_msg, sent,
                  calls>>

-----------------------------------------------------------------------------
(* Bounds of the model *)

\* the most messages a search selects
MaxMsgs == 2
\* the most characters in the template file
MaxTemplateLen == 3
\* the most messages, parts per message, documents and pages per document
\* of a direct call
MaxLen == 2

NL == "\n"
SP == " "

SeqsUpTo(S, n) == UNION {[1..k -> S] : k \in 0..n}

-----------------------------------------------------------------------------
(* str.split(sep), str.split() and str.join *)

RECURSIVE SplitFrom(_, _, _, _, _)
SplitFrom(s, sep, i, cur, acc) ==
    IF i > Len(s) THEN Append(acc, cur)
    ELSE IF s[i] = sep THEN SplitFrom(s, sep, i + 1, <<>>, Append(acc, cur))
    ELSE SplitFrom(s, sep, i + 1, Append(cur, s[i]), acc)

\* s.split(sep): the pieces between separators, empty pieces kept
Split(s, sep) == SplitFrom(s, sep, 1, <<>>, <<>>)

RECURSIVE SplitWSFrom(_, _, _, _)
SplitWSFrom(s, i, cur, acc) ==
    LET flushed == IF cur = <<>> THEN acc ELSE Append(acc, cur) IN
    IF i > Len(s) THEN flushed
    ELSE IF s[i] = SP THEN SplitWSFrom(s, i + 1, <<>>, flushed)
    ELSE SplitWSFrom(s, i + 1, Append(cur, s[i]), acc)

\* s.split(): the runs of non-blank characters, no empty pieces
SplitWS(s) == SplitWSFrom(s, 1, <<>>, <<>>)

RECURSIVE Join(_, _)
Join(lines, sep) ==
    IF lines = <<>> THEN <<>>
    ELSE IF Len(lines) = 1 THEN lines[1]
    ELSE lines[1] \o <<sep>> \o Join(Tail(lines), sep)

-----------------------------------------------------------------------------
(* Exceptions *)

NoErr == [kind |-> "None", message |-> <<>>]

Exc(kind, message) == [kind |-> kind, message |-> message]

\* ImapException.__init__: the message built from the command and the response
ImapException(command, response) ==
    LET c == IF command = "None" THEN <<"An unknown IMAP command">>
             ELSE <<"The IMAP command", command>>
        r == IF response = "None" THEN "failed or raised an error"
             ELSE IF response = "NO" THEN "failed with response \"NO\""
             ELSE IF response = "BAD" THEN "raised an error with response \"BAD\""
             ELSE response
    IN  c \o <<r>>

ImapCommandFailedError(command) ==
    Exc("ImapCommandFailedError", ImapException(command, "NO"))

ImapCommandErroredError(command) ==
    Exc("ImapCommandErroredError", ImapException(command, "BAD"))

try_IMAP_command_swapped(command, response) ==
    IF response = "NO" THEN ImapCommandErroredError(command)
    ELSE IF response = "BAD" THEN ImapCommandFailedError(command)
    ELSE NoErr

\* the decorator's wrapper: the exception a response raises, NoErr when the
\* response is returned to the caller
try_IMAP_command(command, response) ==
    IF response = "NO" THEN ImapCommandFailedError(command)
    ELSE IF response = "BAD" THEN ImapCommandErroredError(command)
    ELSE NoErr

\* the methods of imaplib.IMAP4 the module decorates
Decorated == {"starttls", "select", "search", "fetch", "close", "logout"}

\* what a call of connection.<op> raises on the server's response
ImapRaises(op, response) ==
    IF response = "abort" THEN Exc("imaplib.IMAP4.abort", <<"connection lost">>)
    ELSE IF op \in Decorated THEN try_IMAP_command(op, response)
    ELSE IF response # "OK" THEN Exc("imaplib.IMAP4.error", <<"server said", response>>)
    ELSE NoErr

-----------------------------------------------------------------------------
(* Messages, parts and documents *)

\* a PDF whose pages hold the given texts
Doc(pages) == [defect |-> "none", pages |-> pages]
NoPayload == Doc(<<>>)

Part(ctype, payload, parts) == [ctype |-> ctype, payload |-> payload, parts |-> parts]
TextPart == Part("text/plain", NoPayload, <<>>)
PdfPart(doc) == Part("application/pdf", doc, <<>>)
NestedPart(parts) == Part("multipart/mixed", NoPayload, parts)

FlatMsg == [multipart |-> FALSE, parts |-> <<>>]
MultiMsg(parts) == [multipart |-> TRUE, parts |-> parts]

TextAB == <<"a", NL, "b">>
TextB == <<"b">>
TextBA == <<"b", "a", NL, "a">>

DocA == Doc(<<TextAB>>)
DocB == Doc(<<TextB, TextBA>>)
DocNoPages == Doc(<<>>)
DocBadBase64 == [defect |-> "base64", pages |-> <<TextAB>>]
DocCorrupt == [defect |-> "pdf", pages |-> <<TextAB>>]

\* the messages a mailbox of the pipeline may hold
Catalogue ==
    { FlatMsg,
      MultiMsg(<<TextPart, PdfPart(DocA)>>),
      MultiMsg(<<PdfPart(DocB), TextPart>>),
      MultiMsg(<<NestedPart(<<PdfPart(DocA)>>), PdfPart(DocNoPages)>>),
      MultiMsg(<<PdfPart(DocBadBase64)>>),
      MultiMsg(<<PdfPart(DocCorrupt)>>) }

-----------------------------------------------------------------------------
(* Patterns: a literal searched for anywhere in the line, or a malformed    *)
(* expression that re refuses to compile                                   *)

Pat(lit) == [valid |-> TRUE, lit |-> lit]
PatInvalid == [valid |-> FALSE, lit |-> <<"(">>]
Patterns == {Pat(<<"a">>), Pat(<<"b", "a">>), PatInvalid}

\* re.search(pattern, line) for a pattern that compiles
re_search(pattern, line) ==
    \E i \in 0..(Len(line) - Len(pattern.lit)) :
        SubSeq(line, i + 1, i + Len(pattern.lit)) = pattern.lit

-----------------------------------------------------------------------------
(* The components *)

Returned(value) == [raised |-> "None", value |-> value]
Raised(kind) == [raised |-> kind, value |-> <<>>]

RECURSIVE Multiparts(_)
\* [msg.get_payload() for msg in email_list if msg.is_multipart()]
Multiparts(email_list) ==
    IF email_list = <<>> THEN <<>>
    ELSE (IF Head(email_list).multipart THEN <<Head(email_list).parts>> ELSE <<>>)
         \o Multiparts(Tail(email_list))

RECURSIVE PdfPayloadsDeep(_)
PdfPayloadsDeep(parts) ==
    IF parts = <<>> THEN <<>>
    ELSE (IF Head(parts).ctype = "application/pdf" THEN <<Head(parts).payload>>
          ELSE PdfPayloadsDeep(Head(parts).parts))
         \o PdfPayloadsDeep(Tail(parts))

RECURSIVE PdfPayloads(_)
\* [msg.get_payload() for msg in email if msg.get_content_type() == 'application/pdf']
PdfPayloads(parts) ==
    IF parts = <<>> THEN <<>>
    ELSE (IF Head(parts).ctype = "application/pdf" THEN <<Head(parts).payload>>
          ELSE <<>>)
         \o PdfPayloads(Tail(parts))

RECURSIVE AllPdfPayloads(_)
AllPdfPayloads(payloads) ==
    IF payloads = <<>> THEN <<>>
    ELSE PdfPayloads(Head(payloads)) \o AllPdfPayloads(Tail(payloads))

RECURSIVE Decode(_)
\* PyPDF4.PdfFileReader(io.BytesIO(base64.b64decode(pdf))) for each payload:
\* the first payload that does not decode or parse raises
Decode(payloads) ==
    IF payloads = <<>> THEN Returned(<<>>)
    ELSE IF Head(payloads).defect = "base64" THEN Raised("binascii.Error")
    ELSE IF Head(payloads).defect = "pdf" THEN Raised("PdfReadError")
    ELSE LET rest == Decode(Tail(payloads)) IN
         IF rest.raised # "None" THEN rest
         ELSE Returned(<<Head(payloads)>> \o rest.value)

extract_pdfs(email_list) == Decode(AllPdfPayloads(Multiparts(email_list)))

RECURSIVE PagesOf(_)
\* [pdf.getPage(i) for pdf in pdf_list for i in range(0, pdf.getNumPages())]
PagesOf(pdf_list) ==
    IF pdf_list = <<>> THEN <<>>
    ELSE Head(pdf_list).pages \o PagesOf(Tail(pdf_list))

extract_text(pdf_list) ==
    LET pdf_pages == PagesOf(pdf_list) IN
    [i \in 1..Len(pdf_pages) |-> Split(pdf_pages[i], NL)]

RECURSIVE MatchingLines(_, _)
MatchingLines(page, pattern) ==
    IF page = <<>> THEN <<>>
    ELSE (IF re_search(pattern, Head(page)) THEN <<Head(page)>> ELSE <<>>)
         \o MatchingLines(Tail(page), pattern)

RECURSIVE MatchPages(_, _)
MatchPages(pdf_texts_, pattern) ==
    IF pdf_texts_ = <<>> THEN <<>>
    ELSE MatchingLines(Head(pdf_texts_), pattern)
         \o MatchPages(Tail(pdf_texts_), pattern)

RECURSIVE Dedup(_)
Dedup(lines) ==
    IF lines = <<>> THEN <<>>
    ELSE LET front == Dedup(SubSeq(lines, 1, Len(lines) - 1))
             last == lines[Len(lines)]
         IN  IF \E i \in 1..Len(front) : front[i] = last THEN front
             ELSE Append(front, last)

match_dedup(pdf_texts_, pattern) ==
    IF ~pattern.valid
    THEN IF \E i \in 1..Len(pdf_texts_) : pdf_texts_[i] # <<>>
         THEN Raised("re.error") ELSE Returned(<<>>)
    ELSE Returned(Dedup(MatchPages(pdf_texts_, pattern)))

\* [line for page in pdf_texts for line in page if re.search(pattern, line)]:
\* re compiles the pattern at the first line it is given, and raises re.error
\* there when the pattern is malformed
match(pdf_texts_, pattern) ==
    IF ~pattern.valid
    THEN IF \E i \in 1..Len(pdf_texts_) : pdf_texts_[i] # <<>>
         THEN Raised("re.error") ELSE Returned(<<>>)
    ELSE Returned(MatchPages(pdf_texts_, pattern))

\* write_email once the file is read: email_text is the file's content
write_email(email_text, frm, to) ==
    LET lines == Split(email_text, NL) IN
    [From |-> frm, To |-> to, Subject |-> lines[1],
     content |-> Join(SubSeq(lines, 2, Len(lines)), NL)]

NoEmail == [From |-> "", To |-> "", Subject |-> <<>>, content |-> <<>>]
USER == "user@host"
RECIPIENT == "recipient@host"
Templates == SeqsUpTo({"s", NL}, MaxTemplateLen)

-----------------------------------------------------------------------------
(* The pipeline: __main__, one action per statement *)

NoCall == [fn |-> "none", email_list |-> <<>>, pdf_list |-> <<>>, pattern |-> Pat(<<>>)]
NoRet == [done |-> FALSE, raised |-> "None", pdfs |-> <<>>, matches |-> <<>>]

Digits == <<"1", "2", "3", "4", "5", "6", "7", "8", "9">>
\* the message sequence number an id of the search data names
IdOf(id) == CHOOSE i \in 1..Len(Digits) : Digits[i] = id[1]
\* the data of a search that selects messages 1..n: b'1 2 ... n', b'' for none
SearchData(n) == Join([i \in 1..n |-> <<Digits[i]>>], SP)

Init ==
    /\ pc = "env"
    /\ PATTERN \in Patterns
    /\ imapOpen = FALSE
    /\ smtpOpen = FALSE
    /\ err = NoErr
    /\ exitCode = 0
    /\ lastCall = [op |-> "none", response |-> "none"]
    /\ search_data = <<>>
    /\ server_msgs = <<>>
    /\ matching_emails = <<>>
    /\ fetched = <<>>
    /\ emails = <<>>
    /\ pdfs = <<>>
    /\ pdf_texts = <<>>
    /\ matches = <<>>
    /\ template = <<>>
    /\ email_msg = NoEmail
    /\ sent = <<>>
    /\ calls = {}
    /\ call = NoCall
    /\ ret = NoRet

\* the run ends: normally (exit status 0) or with e uncaught (exit status 1)
Finish(e) ==
    /\ pc' = "done"
    /\ err' = e
    /\ exitCode' = IF e = NoErr THEN 0 ELSE 1

Goto(to) ==
    /\ pc' = to
    /\ UNCHANGED <<err, exitCode>>

\* connection.<op>(...): the server answers, and the call raises or returns
ImapCommand(op, response, to) ==
    /\ lastCall' = [op |-> op, response |-> response]
    /\ IF ImapRaises(op, response) # NoErr
       THEN Finish(ImapRaises(op, response))
       ELSE Goto(to)

ImapResponses == {"OK", "NO", "BAD", "abort"}

fetchVars == <<search_data, server_msgs, matching_emails, fetched>>
localVars == <<emails, pdfs, pdf_texts, matches, template, email_msg>>

\* lines 198-205: a missing variable raises KeyError, a port that is no
\* number ValueError
ReadEnv ==
    /\ pc = "env"
    /\ \E problem \in {"None", "KeyError", "ValueError"} :
         IF problem = "None" THEN Goto("imap_connect")
         ELSE Finish(Exc(problem, <<>>))
    /\ UNCHANGED <<PATTERN, imapOpen, smtpOpen, lastCall, fetchVars, localVars,
                   sent, calls, call, ret>>

\* line 209
ImapConnect ==
    /\ pc = "imap_connect"
    /\ \E connected \in BOOLEAN :
         IF connected THEN imapOpen' = TRUE /\ Goto("imap_starttls")
         ELSE imapOpen' = FALSE /\ Finish(Exc("OSError", <<>>))
    /\ UNCHANGED <<PATTERN, smtpOpen, lastCall, fetchVars, localVars,
                   sent, calls, call, ret>>

\* line 210
ImapStarttls ==
    /\ pc = "imap_starttls"
    /\ \E response \in ImapResponses : ImapCommand("starttls", response, "imap_login")
    /\ UNCHANGED <<PATTERN, imapOpen, smtpOpen, fetchVars, localVars,
                   sent, calls, call, ret>>

\* line 212
ImapLogin ==
    /\ pc = "imap_login"
    /\ \E response \in ImapResponses : ImapCommand("login", response, "imap_select")
    /\ UNCHANGED <<PATTERN, imapOpen, smtpOpen, fetchVars, localVars,
                   sent, calls, call, ret>>

\* line 214
ImapSelect ==
    /\ pc = "imap_select"
    /\ \E response \in ImapResponses : ImapCommand("select", response, "search")
    /\ UNCHANGED <<PATTERN, imapOpen, smtpOpen, fetchVars, localVars,
                   sent, calls, call, ret>>

\* fetch_emails, lines 115-116: the search and the split of its data
FetchSearch ==
    /\ pc = "search"
    /\ \E response \in ImapResponses :
         /\ ImapCommand("search", response, "fetch")
         /\ IF ImapRaises("search", response) # NoErr
            THEN UNCHANGED <<search_data, server_msgs, matching_emails>>
            ELSE \E msgs \in SeqsUpTo(Catalogue, MaxMsgs) :
                   /\ server_msgs' = msgs
                   /\ search_data' = SearchData(Len(msgs))
                   /\ matching_emails' = SplitWS(SearchData(Len(msgs)))
    /\ UNCHANGED <<PATTERN, imapOpen, smtpOpen, fetched, localVars,
                   sent, calls, call, ret>>

\* fetch_emails, lines 117-119: the fetch of one id, parsed
FetchOne ==
    /\ pc = "fetch"
    /\ Len(fetched) < Len(matching_emails)
    /\ \E response \in ImapResponses :
         /\ ImapCommand("fetch", response, "fetch")
         /\ IF ImapRaises("fetch", response) # NoErr
            THEN UNCHANGED fetched
            ELSE fetched' = Append(fetched,
                       server_msgs[IdOf(matching_emails[Len(fetched) + 1])])
    /\ UNCHANGED <<PATTERN, imapOpen, smtpOpen, search_data, server_msgs,
                   matching_emails, localVars, sent, calls, call, ret>>

\* fetch_emails, line 120, and the assignment of line 216
FetchReturn ==
    /\ pc = "fetch"
    /\ Len(fetched) = Len(matching_emails)
    /\ emails' = fetched
    /\ Goto("imap_close")
    /\ UNCHANGED <<PATTERN, imapOpen, smtpOpen, lastCall, fetchVars, pdfs,
                   pdf_texts, matches, template, email_msg, sent, calls, call, ret>>

\* line 217
ImapClose ==
    /\ pc = "imap_close"
    /\ \E response \in ImapResponses : ImapCommand("close", response, "imap_logout")
    /\ UNCHANGED <<PATTERN, imapOpen, smtpOpen, fetchVars, localVars,
                   sent, calls, call, ret>>

ImapLogoutOmitted ==
    /\ pc = "imap_logout"
    /\ Goto("if_emails")
    /\ UNCHANGED <<PATTERN, imapOpen, smtpOpen, lastCall, fetchVars, localVars,
                   sent, calls, call, ret>>

\* line 219: logout shuts the socket down once the server has answered; a
\* connection lost before the answer may or may not have been shut down
ImapLogout ==
    /\ pc = "imap_logout"
    /\ \E response \in {"BYE", "NO", "BAD", "abort"} :
         /\ ImapCommand("logout", response, "if_emails")
         /\ IF response = "abort" THEN imapOpen' \in BOOLEAN ELSE imapOpen' = FALSE
    /\ UNCHANGED <<PATTERN, smtpOpen, fetchVars, localVars,
                   sent, calls, call, ret>>

IfEmailsAlways ==
    /\ pc = "if_emails"
    /\ Goto("extract_pdfs")
    /\ UNCHANGED <<PATTERN, imapOpen, smtpOpen, lastCall, fetchVars, localVars,
                   sent, calls, call, ret>>

\* lines 221, 248-249
IfEmails ==
    /\ pc = "if_emails"
    /\ IF emails # <<>> THEN Goto("extract_pdfs") ELSE Finish(NoErr)
    /\ UNCHANGED <<PATTERN, imapOpen, smtpOpen, lastCall, fetchVars, localVars,
                   sent, calls, call, ret>>

\* line 224
ExtractPdfs ==
    /\ pc = "extract_pdfs"
    /\ calls' = calls \cup {"extract_pdfs"}
    /\ IF extract_pdfs(emails).raised # "None"
       THEN Finish(Exc(extract_pdfs(emails).raised, <<>>)) /\ UNCHANGED pdfs
       ELSE pdfs' = extract_pdfs(emails).value /\ Goto("if_pdfs")
    /\ UNCHANGED <<PATTERN, imapOpen, smtpOpen, lastCall, fetchVars, emails,
                   pdf_texts, matches, template, email_msg, sent, call, ret>>

\* lines 225, 246-247
IfPdfs ==
    /\ pc = "if_pdfs"
    /\ IF pdfs # <<>> THEN Goto("extract_text") ELSE Finish(NoErr)
    /\ UNCHANGED <<PATTERN, imapOpen, smtpOpen, lastCall, fetchVars, localVars,
                   sent, calls, call, ret>>

\* line 227
ExtractText ==
    /\ pc = "extract_text"
    /\ calls' = calls \cup {"extract_text"}
    /\ pdf_texts' = extract_text(pdfs)
    /\ Goto("match")
    /\ UNCHANGED <<PATTERN, imapOpen, smtpOpen, lastCall, fetchVars, emails,
                   pdfs, matches, template, email_msg, sent, call, ret>>

\* line 229
Match ==
    /\ pc = "match"
    /\ calls' = calls \cup {"match"}
    /\ IF match(pdf_texts, PATTERN).raised # "None"
       THEN Finish(Exc(match(pdf_texts, PATTERN).raised, <<>>)) /\ UNCHANGED matches
       ELSE matches' = match(pdf_texts, PATTERN).value /\ Goto("if_matches")
    /\ UNCHANGED <<PATTERN, imapOpen, smtpOpen, lastCall, fetchVars, emails,
                   pdfs, pdf_texts, template, email_msg, sent, call, ret>>

IfMatchesAlways ==
    /\ pc = "if_matches"
    /\ Goto("write_email")
    /\ UNCHANGED <<PATTERN, imapOpen, smtpOpen, lastCall, fetchVars, localVars,
                   sent, calls, call, ret>>

\* lines 232, 244-245
IfMatches ==
    /\ pc = "if_matches"
    /\ IF matches # <<>> THEN Goto("write_email") ELSE Finish(NoErr)
    /\ UNCHANGED <<PATTERN, imapOpen, smtpOpen, lastCall, fetchVars, localVars,
                   sent, calls, call, ret>>

\* line 234: the file is read, or is missing
WriteEmail ==
    /\ pc = "write_email"
    /\ calls' = calls \cup {"write_email"}
    /\ \/ /\ Finish(Exc("FileNotFoundError", <<>>))
          /\ UNCHANGED <<template, email_msg>>
       \/ \E email_text \in Templates :
            /\ template' = email_text
            /\ email_msg' = write_email(email_text, USER, RECIPIENT)
            /\ Goto("smtp_connect")
    /\ UNCHANGED <<PATTERN, imapOpen, smtpOpen, lastCall, fetchVars, emails,
                   pdfs, pdf_texts, matches, sent, call, ret>>

\* an SMTP call that may fail: smtplib raises on every refusal
SmtpCommand(ok, to) ==
    IF ok THEN Goto(to) ELSE Finish(Exc("smtplib.SMTPException", <<>>))

\* line 236
SmtpConnect ==
    /\ pc = "smtp_connect"
    /\ calls' = calls \cup {"SMTP"}
    /\ \E ok \in BOOLEAN : SmtpCommand(ok, "smtp_starttls") /\ smtpOpen' = ok
    /\ UNCHANGED <<PATTERN, imapOpen, lastCall, fetchVars, localVars,
                   sent, call, ret>>

\* line 237
SmtpStarttls ==
    /\ pc = "smtp_starttls"
    /\ \E ok \in BOOLEAN : SmtpCommand(ok, "smtp_login")
    /\ UNCHANGED <<PATTERN, imapOpen, smtpOpen, lastCall, fetchVars, localVars,
                   sent, calls, call, ret>>

\* line 239
SmtpLogin ==
    /\ pc = "smtp_login"
    /\ \E ok \in BOOLEAN : SmtpCommand(ok, "smtp_send")
    /\ UNCHANGED <<PATTERN, imapOpen, smtpOpen, lastCall, fetchVars, localVars,
                   sent, calls, call, ret>>

SmtpSendPerMatch ==
    /\ pc = "smtp_send"
    /\ \E ok \in BOOLEAN :
         /\ SmtpCommand(ok, "smtp_quit")
         /\ sent' = IF ok THEN sent \o [i \in 1..Len(matches) |-> email_msg] ELSE sent
    /\ UNCHANGED <<PATTERN, imapOpen, smtpOpen, lastCall, fetchVars, localVars,
                   calls, call, ret>>

\* line 241
SmtpSend ==
    /\ pc = "smtp_send"
    /\ \E ok \in BOOLEAN :
         /\ SmtpCommand(ok, "smtp_quit")
         /\ sent' = IF ok THEN Append(sent, email_msg) ELSE sent
    /\ UNCHANGED <<PATTERN, imapOpen, smtpOpen, lastCall, fetchVars, localVars,
                   calls, call, ret>>

\* line 243: quit closes the socket once the server has answered; a
\* connection lost before the answer may or may not have been closed
SmtpQuit ==
    /\ pc = "smtp_quit"
    /\ \E ok \in BOOLEAN :
         /\ IF ok THEN Finish(NoErr) ELSE Finish(Exc("smtplib.SMTPException", <<>>))
         /\ IF ok THEN smtpOpen' = FALSE ELSE smtpOpen' \in BOOLEAN
    /\ UNCHANGED <<PATTERN, imapOpen, lastCall, fetchVars, localVars,
                   sent, calls, call, ret>>

Next ==
    \/ ReadEnv \/ ImapConnect \/ ImapStarttls \/ ImapLogin \/ ImapSelect
    \/ FetchSearch \/ FetchOne \/ FetchReturn \/ ImapClose \/ ImapLogout
    \/ IfEmails \/ ExtractPdfs \/ IfPdfs \/ ExtractText \/ Match \/ IfMatches
    \/ WriteEmail \/ SmtpConnect \/ SmtpStarttls \/ SmtpLogin \/ SmtpSend
    \/ SmtpQuit

Spec == Init /\ [][Next]_vars

-----------------------------------------------------------------------------
(* Direct calls of extract_pdfs and of extract_text followed by match, on   *)
(* inputs drawn from bounded sets                                          *)

FnMessages ==
    {FlatMsg, MultiMsg(<<NestedPart(<<PdfPart(DocB)>>), PdfPart(DocA)>>)}
    \cup {MultiMsg(parts) : parts \in SeqsUpTo({TextPart, PdfPart(DocA)}, MaxLen)}
FnDocs == {Doc(pages) : pages \in SeqsUpTo({TextAB, TextBA}, MaxLen)}

FnCalls ==
    {[fn |-> "extract_pdfs", email_list |-> l, pdf_list |-> <<>>, pattern |-> Pat(<<>>)] :
        l \in SeqsUpTo(FnMessages, MaxLen)}
    \cup
    {[fn |-> "match", email_list |-> <<>>, pdf_list |-> d, pattern |-> p] :
        d \in SeqsUpTo(FnDocs, MaxLen), p \in Patterns}

InitFn ==
    /\ pc = "call"
    /\ PATTERN = Pat(<<>>)
    /\ imapOpen = FALSE
    /\ smtpOpen = FALSE
    /\ err = NoErr
    /\ exitCode = 0
    /\ lastCall = [op |-> "none", response |-> "none"]
    /\ search_data = <<>>
    /\ server_msgs = <<>>
    /\ matching_emails = <<>>
    /\ fetched = <<>>
    /\ emails = <<>>
    /\ pdfs = <<>>
    /\ pdf_texts = <<>>
    /\ matches = <<>>
    /\ template = <<>>
    /\ email_msg = NoEmail
    /\ sent = <<>>
    /\ calls = {}
    /\ call \in FnCalls
    /\ ret = NoRet

CallExtractPdfs ==
    /\ call.fn = "extract_pdfs"
    /\ ~ret.done
    /\ ret' = [done |-> TRUE, raised |-> extract_pdfs(call.email_list).raised,
               pdfs |-> extract_pdfs(call.email_list).value, matches |-> <<>>]
    /\ UNCHANGED <<pipelineVars, call>>

CallMatch ==
    /\ call.fn = "match"
    /\ ~ret.done
    /\ ret' = [done |-> TRUE,
               raised |-> match(extract_text(call.pdf_list), call.pattern).raised,
               pdfs |-> <<>>,
               matches |-> match(extract_text(call.pdf_list), call.pattern).value]
    /\ UNCHANGED <<pipelineVars, call>>

NextFn == CallExtractPdfs \/ CallMatch

SpecFn == InitFn /\ [][NextFn]_vars

-----------------------------------------------------------------------------
(* Properties *)

\* the message names the operation
Names(message, op) == \E i \in 1..Len(message) : message[i] = op

\* connection.search has returned its data
SearchReturned ==
    \/ lastCall.op \in {"fetch", "close", "logout"}
    \/ lastCall.op = "search" /\ lastCall.response = "OK"

\* the search selected no message
ZeroMessages == SearchReturned /\ search_data = <<>>

\* connection.logout() has returned: the IMAP phase is over without an error
LogoutReturned == lastCall.op = "logout" /\ lastCall.response = "BYE"

\* extract_pdfs has returned an empty list
NoPdfs ==
    /\ "extract_pdfs" \in calls
    /\ pc \in {"if_pdfs", "done"}
    /\ err.kind \notin {"binascii.Error", "PdfReadError"}
    /\ pdfs = <<>>

\* match has returned an empty list
NoMatches ==
    /\ "match" \in calls
    /\ pc \in {"if_matches", "done"}
    /\ err.kind # "re.error"
    /\ matches = <<>>

\* match has returned a list that is not empty
SomeMatches == "match" \in calls /\ matches # <<>>

\* C1: the IMAP and the SMTP session are never open at the same time, and
\* once an SMTP session has been asked for the IMAP session is closed and its
\* logout has returned.
C1_OneSessionAtATime ==
    /\ ~(imapOpen /\ smtpOpen)
    /\ "SMTP" \in calls => ~imapOpen /\ LogoutReturned

C1_Witness == smtpOpen /\ ~imapOpen /\ pc = "smtp_send"

\* C2 as claimed: no run ends with a session it opened still open.
C2_SessionsReleasedOnExit == pc = "done" => ~imapOpen /\ ~smtpOpen

\* C3 as claimed: a rejected IMAP login ends the run in the command-failed
\* error naming "login", with no SMTP session asked for and a non-zero exit.
C3_LoginRejectedIsCommandFailed ==
    (lastCall.op = "login" /\ lastCall.response = "NO") =>
        /\ pc = "done"
        /\ err.kind = "ImapCommandFailedError"
        /\ Names(err.message, "login")
        /\ "SMTP" \notin calls
        /\ exitCode # 0

\* C4: for each of starttls, select, search, fetch, close and logout, a
\* response "NO" ends the run in ImapCommandFailedError and a response "BAD"
\* in ImapCommandErroredError, two different kinds, each naming the operation.
C4_TypedErrorsNameTheOperation ==
    \A op \in {"starttls", "select", "search", "fetch", "close", "logout"} :
        /\ ImapCommandFailedError(op).kind # ImapCommandErroredError(op).kind
        /\ (lastCall.op = op /\ lastCall.response = "NO") =>
              /\ pc = "done" /\ exitCode # 0
              /\ err.kind = "ImapCommandFailedError"
              /\ Names(err.message, op)
        /\ (lastCall.op = op /\ lastCall.response = "BAD") =>
              /\ pc = "done" /\ exitCode # 0
              /\ err.kind = "ImapCommandErroredError"
              /\ Names(err.message, op)

C4_Witness ==
    /\ lastCall = [op |-> "fetch", response |-> "BAD"]
    /\ err.kind = "ImapCommandErroredError"
    /\ fetched # <<>>

FirstNewline(text) ==
    IF \E i \in 1..Len(text) : text[i] = NL
    THEN CHOOSE i \in 1..Len(text) :
            text[i] = NL /\ \A j \in 1..(i - 1) : text[j] # NL
    ELSE 0
FirstLine(text) ==
    IF FirstNewline(text) = 0 THEN text ELSE SubSeq(text, 1, FirstNewline(text) - 1)
AfterFirstLine(text) ==
    IF FirstNewline(text) = 0 THEN <<>>
    ELSE SubSeq(text, FirstNewline(text) + 1, Len(text))

MatchPlaces(pdf_list, pattern) ==
    UNION { UNION { { <<d, p, l>> :
                        l \in { k \in 1..Len(Split(pdf_list[d].pages[p], NL)) :
                                  re_search(pattern, Split(pdf_list[d].pages[p], NL)[k]) } } :
                    p \in 1..Len(pdf_list[d].pages) } :
            d \in 1..Len(pdf_list) }

\* place x comes no later than place y: document, then page, then line
NoLater(x, y) ==
    \/ x[1] < y[1]
    \/ x[1] = y[1] /\ x[2] < y[2]
    \/ x[1] = y[1] /\ x[2] = y[2] /\ x[3] <= y[3]

\* C8: match returns one entry per matching line and no other: the k-th
\* matching line in document, page and line order is the k-th entry.
C8_MatchIsOrderedFilter ==
    (ret.done /\ call.fn = "match" /\ call.pattern.valid) =>
        LET places == MatchPlaces(call.pdf_list, call.pattern) IN
        /\ ret.raised = "None"
        /\ Len(ret.matches) = Cardinality(places)
        /\ \A x \in places :
              ret.matches[Cardinality({y \in places : NoLater(y, x)})]
                  = Split(call.pdf_list[x[1]].pages[x[2]], NL)[x[3]]

C8_Witness ==
    /\ ret.done /\ call.fn = "match" /\ call.pattern = Pat(<<"a">>)
    /\ Len(call.pdf_list) = 2
    /\ ret.matches = <<<<"a">>, <<"b", "a">>, <<"a">>, <<"a">>>>

\* the (message, part) places of the immediate application/pdf parts of the
\* multipart messages of email_list
PdfPlaces(email_list) ==
    UNION { { <<m, q>> :
                q \in { k \in 1..Len(email_list[m].parts) :
                          /\ email_list[m].multipart
                          /\ email_list[m].parts[k].ctype = "application/pdf" } } :
            m \in 1..Len(email_list) }

\* C9: extract_pdfs yields one attachment per immediate application/pdf part
\* of a multipart message, in order, and nothing else.
C9_ImmediatePdfPartsOnly ==
    (ret.done /\ call.fn = "extract_pdfs") =>
        LET places == PdfPlaces(call.email_list) IN
        /\ ret.raised = "None"
        /\ Len(ret.pdfs) = Cardinality(places)
        /\ \A x \in places :
              ret.pdfs[Cardinality({y \in places :
                          y[1] < x[1] \/ (y[1] = x[1] /\ y[2] <= x[2])})]
                  = call.email_list[x[1]].parts[x[2]].payload

C9_Witness ==
    /\ ret.done /\ call.fn = "extract_pdfs"
    /\ call.email_list =
         <<FlatMsg, MultiMsg(<<NestedPart(<<PdfPart(DocB)>>), PdfPart(DocA)>>)>>
    /\ ret.pdfs = <<DocA>>

\* C10 as claimed: a run configured with a malformed pattern ends in the
\* pattern's error whatever the mailbox holds (or in an error that ended the
\* run before the matcher was reached), and never ends normally.
C10_InvalidPatternIsReported ==
    (pc = "done" /\ ~PATTERN.valid) =>
        /\ exitCode # 0
        /\ err.kind = "re.error" \/ (err # NoErr /\ "match" \notin calls)

====
